---- MODULE Spec2Model ----
(***************************************************************************)
(* Model of librustc_save_analysis/data.rs: the analysis data of a crate,  *)
(* the conversion of a Span into SpanData, and the normalisation of        *)
(* NodeIds into crate-local ids (normalize_node_id, impl_normalize!).      *)
(***************************************************************************)
EXTENDS Integers, Naturals, Sequences, FiniteSets, TLC

(***************************************************************************)
(* Bounds.  NodeId is u32 in the source; the model scales the type down to *)
(* 0..MaxNodeId, so that `as u32` is reduction modulo MaxNodeId + 1.  A    *)
(* unit has at most MaxDefs definitions, and the byte positions of the     *)
(* generated CodeMaps and Spans are 0..MaxPos.                             *)
(***************************************************************************)
MaxNodeId == 5
MaxDefs == 3
MaxPos == 5

NodeId == 0 .. MaxNodeId
U32Modulus == MaxNodeId + 1
\* usize on a 64-bit host is twice as wide as u32.
UsizeModulus == U32Modulus * U32Modulus

None == << >>
Some(x) == << x >>

VARIABLES
    defs,   \* tcx.map: defs[i] is the NodeId of the definition with DefId index i-1
    prev,   \* an earlier call of normalize_node_id in this pass (or None)
    cur,    \* the latest call of normalize_node_id in this pass (or None)
    fact,   \* the fact handed to normalize (or None)
    out,    \* the fact normalize returned (or None)
    cm,     \* the CodeMap
    span,   \* the Span handed to from_span (or None)
    sd      \* the outcome of from_span: not called, returned a SpanData, panicked

vars == << defs, prev, cur, fact, out, cm, span, sd >>

LOCAL_CRATE == 0

\* The SpanData struct, and the outcome of a call of from_span.
SpanData(file_name, byte_start, byte_end, line_start, line_end, column_start, column_end) ==
    [file_name |-> file_name, byte_start |-> byte_start, byte_end |-> byte_end,
     line_start |-> line_start, line_end |-> line_end,
     column_start |-> column_start, column_end |-> column_end]

Returned(v) == [status |-> "returned", value |-> v]
Panicked == [status |-> "panicked", value |-> SpanData("", 0, 0, 0, 0, 0, 0)]
NotCalled == [status |-> "not called", value |-> SpanData("", 0, 0, 0, 0, 0, 0)]

(***************************************************************************)
(* The unit (tcx.map).  Every definition of the crate has a DefId index in *)
(* 0 .. N-1 and was created for one NodeId; no NodeId has two definitions. *)
(***************************************************************************)
Range(s) == { s[i] : i \in 1 .. Len(s) }

InjectiveSeqs(S, n) ==
    UNION { { s \in [1 .. k -> S] : \A i, j \in 1 .. k : s[i] = s[j] => i = j } : k \in 0 .. n }

Units == InjectiveSeqs(NodeId, MaxDefs)

num_local_def_ids == Len(defs)

opt_local_def_id(id) ==
    IF id \in Range(defs)
    THEN Some([krate |-> LOCAL_CRATE,
               index |-> (CHOOSE i \in 1 .. Len(defs) : defs[i] = id) - 1])
    ELSE None

(***************************************************************************)
(* normalize_node_id                                                       *)
(***************************************************************************)
normalize_node_id_always_offset(id) ==
    (id + num_local_def_ids) % UsizeModulus

normalize_node_id_no_offset(id) ==
    LET r == opt_local_def_id(id)
    IN  IF r # None THEN r[1].index ELSE id

normalize_node_id_drifting(id) ==
    LET r == opt_local_def_id(id)
    IN  IF r # None THEN r[1].index
        ELSE (id + num_local_def_ids + (IF cur # None THEN 1 ELSE 0)) % UsizeModulus

normalize_node_id(id) ==
    LET r == opt_local_def_id(id)
    IN  IF r # None
        THEN r[1].index
        ELSE (id + num_local_def_ids) % UsizeModulus

(***************************************************************************)
(* A pass that calls normalize_node_id on the NodeIds of one unit.         *)
(***************************************************************************)
InitUnify ==
    /\ defs \in Units
    /\ prev = None
    /\ cur = None
    /\ fact = None
    /\ out = None
    /\ cm = << >>
    /\ span = None
    /\ sd = NotCalled

\* One call.  The call it replaces as the latest one is either remembered in
\* prev or forgotten, so prev ranges over every earlier call of the pass.
CallNormalizeNodeId ==
    \E id \in NodeId :
        /\ cur' = Some([id |-> id, n |-> num_local_def_ids, res |-> normalize_node_id(id)])
        /\ prev' \in { prev, cur }
        /\ UNCHANGED << defs, fact, out, cm, span, sd >>

NextUnify == CallNormalizeNodeId

SpecUnify == InitUnify /\ [][NextUnify]_vars

(***************************************************************************)
(* The fact structs.  StructFields gives each struct's fields with their   *)
(* types, as declared: "NodeId", "DefId", "OptDefId" (Option<DefId>),       *)
(* "OptTypeRef" (Option<TypeRefData>) and "Data" for every other type      *)
(* (String, Span, CrateNum, bool, Vec<String>).                            *)
(***************************************************************************)
StructFields ==
    [ EnumData |-> << <<"id", "NodeId">>, <<"value", "Data">>, <<"qualname", "Data">>,
                      <<"span", "Data">>, <<"scope", "NodeId">> >>,
      ExternCrateData |-> << <<"id", "NodeId">>, <<"name", "Data">>, <<"crate_num", "Data">>,
                      <<"location", "Data">>, <<"span", "Data">>, <<"scope", "NodeId">> >>,
      FunctionCallData |-> << <<"span", "Data">>, <<"scope", "NodeId">>, <<"ref_id", "DefId">> >>,
      FunctionData |-> << <<"id", "NodeId">>, <<"name", "Data">>, <<"qualname", "Data">>,
                      <<"declaration", "OptDefId">>, <<"span", "Data">>, <<"scope", "NodeId">> >>,
      FunctionRefData |-> << <<"span", "Data">>, <<"scope", "NodeId">>, <<"ref_id", "DefId">> >>,
      ImplData |-> << <<"id", "NodeId">>, <<"span", "Data">>, <<"scope", "NodeId">>,
                      <<"trait_ref", "OptDefId">>, <<"self_ref", "OptDefId">> >>,
      ImplData2 |-> << <<"id", "NodeId">>, <<"span", "Data">>, <<"scope", "NodeId">>,
                      <<"trait_ref", "OptTypeRef">>, <<"self_ref", "OptTypeRef">> >>,
      InheritanceData |-> << <<"span", "Data">>, <<"base_id", "DefId">>, <<"deriv_id", "NodeId">> >>,
      MacroData |-> << <<"span", "Data">>, <<"name", "Data">>, <<"qualname", "Data">> >>,
      MacroUseData |-> << <<"span", "Data">>, <<"name", "Data">>, <<"qualname", "Data">>,
                      <<"callee_span", "Data">>, <<"scope", "NodeId">>, <<"imported", "Data">> >>,
      MethodCallData |-> << <<"span", "Data">>, <<"scope", "NodeId">>,
                      <<"ref_id", "OptDefId">>, <<"decl_id", "OptDefId">> >>,
      MethodData |-> << <<"id", "NodeId">>, <<"qualname", "Data">>, <<"span", "Data">>,
                      <<"scope", "NodeId">> >>,
      ModData |-> << <<"id", "NodeId">>, <<"name", "Data">>, <<"qualname", "Data">>,
                      <<"span", "Data">>, <<"scope", "NodeId">>, <<"filename", "Data">> >>,
      ModRefData |-> << <<"span", "Data">>, <<"scope", "NodeId">>, <<"ref_id", "OptDefId">>,
                      <<"qualname", "Data">> >>,
      StructData |-> << <<"span", "Data">>, <<"id", "NodeId">>, <<"ctor_id", "NodeId">>,
                      <<"qualname", "Data">>, <<"scope", "NodeId">>, <<"value", "Data">> >>,
      StructVariantData |-> << <<"span", "Data">>, <<"id", "NodeId">>, <<"qualname", "Data">>,
                      <<"type_value", "Data">>, <<"value", "Data">>, <<"scope", "NodeId">> >>,
      TraitData |-> << <<"span", "Data">>, <<"id", "NodeId">>, <<"qualname", "Data">>,
                      <<"scope", "NodeId">>, <<"value", "Data">> >>,
      TupleVariantData |-> << <<"span", "Data">>, <<"id", "NodeId">>, <<"name", "Data">>,
                      <<"qualname", "Data">>, <<"type_value", "Data">>, <<"value", "Data">>,
                      <<"scope", "NodeId">> >>,
      TypedefData |-> << <<"id", "NodeId">>, <<"span", "Data">>, <<"qualname", "Data">>,
                      <<"value", "Data">> >>,
      TypeRefData |-> << <<"span", "Data">>, <<"scope", "NodeId">>, <<"ref_id", "OptDefId">>,
                      <<"qualname", "Data">> >>,
      UseData |-> << <<"id", "NodeId">>, <<"span", "Data">>, <<"name", "Data">>,
                      <<"mod_id", "OptDefId">>, <<"scope", "NodeId">> >>,
      UseGlobData |-> << <<"id", "NodeId">>, <<"span", "Data">>, <<"names", "Data">>,
                      <<"scope", "NodeId">> >>,
      VariableData |-> << <<"id", "NodeId">>, <<"name", "Data">>, <<"qualname", "Data">>,
                      <<"span", "Data">>, <<"scope", "NodeId">>, <<"value", "Data">>,
                      <<"type_value", "Data">> >>,
      VariableRefData |-> << <<"name", "Data">>, <<"span", "Data">>, <<"scope", "NodeId">>,
                      <<"ref_id", "DefId">> >> ]

\* The struct each variant of the Data enum carries.
Data ==
    [ EnumData |-> "EnumData", ExternCrateData |-> "ExternCrateData",
      FunctionCallData |-> "FunctionCallData", FunctionData |-> "FunctionData",
      FunctionRefData |-> "FunctionRefData", ImplData |-> "ImplData2",
      InheritanceData |-> "InheritanceData", MacroData |-> "MacroData",
      MacroUseData |-> "MacroUseData", MethodCallData |-> "MethodCallData",
      MethodData |-> "MethodData", ModData |-> "ModData", ModRefData |-> "ModRefData",
      StructData |-> "StructData", StructVariantDat |-> "StructVariantData",
      TraitData |-> "TraitData", TupleVariantData |-> "TupleVariantData",
      TypeDefData |-> "TypedefData", TypeRefData |-> "TypeRefData",
      UseData |-> "UseData", UseGlobData |-> "UseGlobData",
      VariableData |-> "VariableData", VariableRefData |-> "VariableRefData" ]

\* The invocation of impl_normalize!: the fields each normalize() rewrites,
\* in the order it rewrites them.
impl_normalize ==
    [ EnumData |-> << "id", "scope" >>,
      ExternCrateData |-> << "id", "scope" >>,
      FunctionCallData |-> << "scope" >>,
      FunctionData |-> << "id", "scope" >>,
      FunctionRefData |-> << "scope" >>,
      ImplData |-> << "id", "scope" >>,
      InheritanceData |-> << "deriv_id" >>,
      MacroUseData |-> << "scope" >>,
      MethodCallData |-> << "scope" >>,
      MethodData |-> << "id", "scope" >>,
      ModData |-> << "id", "scope" >>,
      ModRefData |-> << "scope" >>,
      StructData |-> << "ctor_id", "id", "scope" >>,
      StructVariantData |-> << "id", "scope" >>,
      TupleVariantData |-> << "id", "scope" >>,
      TraitData |-> << "id", "scope" >>,
      TypedefData |-> << "id" >>,
      TypeRefData |-> << "scope" >>,
      UseData |-> << "id", "scope" >>,
      UseGlobData |-> << "id", "scope" >>,
      VariableData |-> << "id" >>,
      VariableRefData |-> << "scope" >> ]

FieldNames(ty) == { StructFields[ty][i][1] : i \in 1 .. Len(StructFields[ty]) }
FieldsOfType(ty, t) ==
    { StructFields[ty][i][1] : i \in { j \in 1 .. Len(StructFields[ty]) : StructFields[ty][j][2] = t } }

\* DefIds a reference field may hold: one of this crate, one of another crate.
DefIds == { [krate |-> LOCAL_CRATE, index |-> 0], [krate |-> LOCAL_CRATE + 1, index |-> 1] }

\* The values a field of type t may hold.  A field that is no identifier holds
\* data of its own, different from the data of every other field.
FieldValues(f, t) ==
    CASE t = "NodeId" -> NodeId
      [] t = "DefId" -> DefIds
      [] t = "OptDefId" -> { None } \cup { Some(d) : d \in DefIds }
      [] t = "OptTypeRef" -> { None, Some(<< "TypeRefData", f >>) }
      [] OTHER -> { << "data", f >> }

\* Every assignment of values to the fields decls declares.
RECURSIVE FieldAssignments(_)
FieldAssignments(decls) ==
    IF decls = << >>
    THEN { [g \in {} |-> None] }
    ELSE LET f == Head(decls)[1]
             t == Head(decls)[2]
         IN  { [g \in DOMAIN r \cup { f } |-> IF g = f THEN v ELSE r[g]] :
                   r \in FieldAssignments(Tail(decls)), v \in FieldValues(f, t) }

\* Every value of struct ty.
StructValues(ty) ==
    { [ty |-> ty, fields |-> x] : x \in FieldAssignments(StructFields[ty]) }

(***************************************************************************)
(* impl_normalize!: normalize() rewrites the registered fields one after   *)
(* the other, each to normalize_node_id(tcx, field) as u32.                *)
(***************************************************************************)
as_u32_lossless(n) == n

as_u32(n) == n % U32Modulus

RECURSIVE normalize_fields(_, _)
normalize_fields(self, registered) ==
    IF registered = << >>
    THEN self
    ELSE normalize_fields(
             [self EXCEPT ![Head(registered)] = as_u32(normalize_node_id(self[Head(registered)]))],
             Tail(registered))

\* A normalize() that builds its result afresh and leaves the optional
\* references empty.
normalize_rebuilt(x) ==
    [ty |-> x.ty,
     fields |-> [f \in DOMAIN x.fields |->
                    IF f \in FieldsOfType(x.ty, "OptDefId")
                    THEN None
                    ELSE normalize_fields(x.fields, impl_normalize[x.ty])[f]]]

normalize(x) == [ty |-> x.ty, fields |-> normalize_fields(x.fields, impl_normalize[x.ty])]

(***************************************************************************)
(* A pass that normalises the facts of one unit.                           *)
(***************************************************************************)
InitNorm ==
    /\ defs \in Units
    /\ prev = None
    /\ cur = None
    /\ fact = None
    /\ out = None
    /\ cm = << >>
    /\ span = None
    /\ sd = NotCalled

\* The facts of the structs that have a normalize() method.
NormalizableFacts == UNION { StructValues(ty) : ty \in DOMAIN impl_normalize }

\* One call of normalize(), on a fact of a struct that has the method.  The
\* method takes the fact by value (mut self): a fact is normalised once.
Normalize ==
    /\ fact = None
    /\ \E x \in NormalizableFacts :
           /\ fact' = Some(x)
           /\ out' = Some(normalize(x))
           /\ UNCHANGED << defs, prev, cur, cm, span, sd >>

NextNorm == Normalize

SpecNorm == InitNorm /\ [][NextNorm]_vars

(***************************************************************************)
(* The CodeMap.  A FileMap covers the byte positions start_pos .. end_pos, *)
(* lines holds the byte position each of its lines starts at, and          *)
(* multibyte_chars the characters that take more than one byte.  A file    *)
(* starts one position after the end of the file before it.                *)
(***************************************************************************)
MultiByteChars(start, end) ==
    { << >> } \cup
    { << m >> : m \in { x \in [pos : start .. end, bytes : 2 .. 3] : x.pos + x.bytes <= end } }

FileMaps(name, start, end) ==
    { [name |-> name, start_pos |-> start, end_pos |-> end, lines |-> ls, multibyte_chars |-> mbcs] :
        ls \in { << start >> } \cup { << start, l >> : l \in start + 1 .. end },
        mbcs \in MultiByteChars(start, end) }

\* A line starts at a character, never inside one.
WellFormedFile(f) ==
    \A i \in 1 .. Len(f.lines) : \A k \in 1 .. Len(f.multibyte_chars) :
        ~ (f.multibyte_chars[k].pos < f.lines[i]
             /\ f.lines[i] < f.multibyte_chars[k].pos + f.multibyte_chars[k].bytes)

CodeMaps ==
    LET one == UNION { FileMaps("a.rs", 0, e) : e \in 0 .. MaxPos }
        two == UNION { { << f, g >> : f \in FileMaps("a.rs", 0, e), g \in FileMaps("b.rs", e + 1, MaxPos) } :
                         e \in 0 .. MaxPos - 1 }
    IN  { << >> } \cup { << f >> : f \in { g \in one : WellFormedFile(g) } }
                  \cup { c \in two : WellFormedFile(c[1]) /\ WellFormedFile(c[2]) }

\* The byte positions of map that are the start of a character (or the end of
\* a file's text).
CharBoundaries(map) ==
    { p \in map.start_pos .. map.end_pos :
        \A k \in 1 .. Len(map.multibyte_chars) :
            ~ (map.multibyte_chars[k].pos < p
                 /\ p < map.multibyte_chars[k].pos + map.multibyte_chars[k].bytes) }

InsideChar(c, pos) ==
    \E i \in 1 .. Len(c) :
        /\ c[i].start_pos <= pos /\ pos <= c[i].end_pos
        /\ pos \notin CharBoundaries(c[i])

\* The Spans a pass hands in: lo <= hi, both on a character boundary.
Spans(c) ==
    { [lo |-> l, hi |-> h] : l \in 0 .. MaxPos, h \in 0 .. MaxPos } \cap
    { sp \in [lo : 0 .. MaxPos, hi : 0 .. MaxPos] :
        sp.lo <= sp.hi /\ ~InsideChar(c, sp.lo) /\ ~InsideChar(c, sp.hi) }

\* A file of two lines, the second starting at byte 100, one byte a character,
\* and a span over its bytes [120, 135).
ExampleCodeMap ==
    << [name |-> "lib.rs", start_pos |-> 0, end_pos |-> 200, lines |-> << 0, 100 >>,
        multibyte_chars |-> << >>] >>
ExampleSpan == [lo |-> 120, hi |-> 135]

RECURSIVE total_extra_bytes(_, _)
total_extra_bytes(mbcs, bpos) ==
    IF mbcs = << >> \/ Head(mbcs).pos >= bpos
    THEN 0
    ELSE Head(mbcs).bytes - 1 + total_extra_bytes(Tail(mbcs), bpos)

bytepos_to_file_charpos(map, bpos) ==
    bpos - map.start_pos - total_extra_bytes(map.multibyte_chars, bpos)

\* CodeMap::lookup_char_pos: the file, the 1-based line and the 0-based
\* character column of a byte position; it fails for a position in no file.
lookup_char_pos(pos) ==
    IF \E i \in 1 .. Len(cm) : cm[i].start_pos <= pos /\ pos <= cm[i].end_pos
    THEN LET f == cm[CHOOSE i \in 1 .. Len(cm) : cm[i].start_pos <= pos /\ pos <= cm[i].end_pos]
             a == Cardinality({ i \in 1 .. Len(f.lines) : f.lines[i] <= pos })
             chpos == bytepos_to_file_charpos(f, pos)
             linechpos == bytepos_to_file_charpos(f, f.lines[a])
         IN  [ok |-> TRUE, file |-> f, line |-> a, col |-> chpos - linechpos]
    ELSE [ok |-> FALSE, file |-> None, line |-> 0, col |-> 0]

(***************************************************************************)
(* SpanData::from_span.  A failure of lookup_char_pos unwinds through it.  *)
(***************************************************************************)
from_span_defaulting(sp) ==
    LET start == lookup_char_pos(sp.lo)
        end == lookup_char_pos(sp.hi)
    IN  Returned(SpanData(IF start.ok THEN start.file.name ELSE "", sp.lo, sp.hi,
                          start.line, end.line, start.col + 1, end.col + 1))

from_span_swapped(sp) ==
    LET start == lookup_char_pos(sp.lo)
        end == lookup_char_pos(sp.hi)
    IN  IF ~start.ok \/ ~end.ok
        THEN Panicked
        ELSE Returned(SpanData(start.file.name, sp.hi, sp.lo,
                               start.line, end.line, start.col + 1, end.col + 1))

from_span_zero_based(sp) ==
    LET start == lookup_char_pos(sp.lo)
        end == lookup_char_pos(sp.hi)
    IN  IF ~start.ok \/ ~end.ok
        THEN Panicked
        ELSE Returned(SpanData(start.file.name, sp.lo, sp.hi,
                               start.line, end.line, start.col, end.col))

from_span(sp) ==
    LET start == lookup_char_pos(sp.lo)
        end == lookup_char_pos(sp.hi)
    IN  IF ~start.ok \/ ~end.ok
        THEN Panicked
        ELSE Returned(SpanData(start.file.name, sp.lo, sp.hi,
                               start.line, end.line, start.col + 1, end.col + 1))

(***************************************************************************)
(* A pass that converts one Span.                                          *)
(***************************************************************************)
InitSpan ==
    /\ defs = << >>
    /\ prev = None
    /\ cur = None
    /\ fact = None
    /\ out = None
    /\ \/ cm \in CodeMaps /\ span \in { Some(sp) : sp \in Spans(cm) }
       \/ cm = ExampleCodeMap /\ span = Some(ExampleSpan)
    /\ sd = NotCalled

FromSpan ==
    /\ sd.status = "not called"
    /\ sd' = from_span(span[1])
    /\ UNCHANGED << defs, prev, cur, fact, out, cm, span >>

NextSpan == FromSpan

SpecSpan == InitSpan /\ [][NextSpan]_vars

(***************************************************************************)
(* Properties of normalize_node_id, checked under SpecUnify.               *)
(***************************************************************************)
Resolves(id) == \E i \in 1 .. Len(defs) : defs[i] = id

\* C1: within one unit, two calls of normalize_node_id with distinct NodeIds
\* return distinct ids, whether both, neither or exactly one of them resolves
\* to a DefId; a DefId index is below N and an offset NodeId is at least N.
C1_CollisionFree ==
    /\ (prev # None /\ cur # None /\ prev[1].id # cur[1].id)
           => prev[1].res # cur[1].res
    /\ cur # None =>
           IF Resolves(cur[1].id) THEN cur[1].res < Len(defs)
                                  ELSE cur[1].res >= Len(defs)

\* C1 witness: exactly one of two distinct NodeIds resolves, and the other
\* one's numeric value is the DefId index the first resolves to.
C1_Witness ==
    /\ prev # None /\ cur # None
    /\ Resolves(prev[1].id) /\ ~Resolves(cur[1].id)
    /\ cur[1].id = prev[1].res
    /\ prev[1].res # cur[1].res

\* C2: a NodeId that resolves to a DefId is normalised to that DefId's index,
\* with no offset, whatever the NodeId's numeric value is.
C2_ResolverFirst ==
    cur # None =>
        \A i \in 1 .. Len(defs) : defs[i] = cur[1].id => cur[1].res = i - 1

\* C2 witness: a resolving NodeId whose numeric value is the DefId index of
\* another definition, and not its own.
C2_Witness ==
    /\ cur # None
    /\ \E i, j \in 1 .. Len(defs) :
           /\ i # j
           /\ defs[i] = cur[1].id
           /\ cur[1].id = j - 1
           /\ cur[1].res = i - 1

\* C3: a NodeId that does not resolve is normalised to id + N, which is at
\* least N, where N is the unit's number of local DefIds.
C3_LocalOffset ==
    (cur # None /\ ~Resolves(cur[1].id)) =>
        /\ cur[1].res = cur[1].id + Len(defs)
        /\ cur[1].res >= Len(defs)

\* C3 witness: with N = 3, NodeId 0 was normalised to 3 and NodeId 5 to 8.
C3_Witness ==
    /\ Len(defs) = 3
    /\ prev # None /\ cur # None
    /\ prev[1].id = 0 /\ prev[1].res = 3
    /\ cur[1].id = 5 /\ cur[1].res = 8

Unified(id) ==
    IF \E i \in 1 .. Len(defs) : defs[i] = id
    THEN (CHOOSE i \in 1 .. Len(defs) : defs[i] = id) - 1
    ELSE id + Len(defs)

DataStructs == { Data[v] : v \in DOMAIN Data }

\* C4: for a fact of any struct the Data enum carries, normalize() leaves
\* every NodeId-typed field (id, scope, ctor_id, deriv_id) holding the unified
\* id (as stored in the u32 field) of the NodeId it held before.
C4_Exhaustive ==
    (out # None /\ fact[1].ty \in DataStructs) =>
        \A f \in FieldsOfType(fact[1].ty, "NodeId") :
            out[1].fields[f] = Unified(fact[1].fields[f]) % U32Modulus

\* C5: normalize() returns a fact of the same struct that equals its input in
\* every field that is not registered in impl_normalize! (in particular every
\* field that is no NodeId: an absent optional reference stays absent), while
\* the registered fields hold the stored unified ids.
C5_Frame ==
    out # None =>
        LET x == fact[1]
            y == out[1]
            registered == Range(impl_normalize[x.ty])
        IN  /\ y.ty = x.ty
            /\ DOMAIN y.fields = DOMAIN x.fields
            /\ \A f \in FieldNames(x.ty) \ registered : y.fields[f] = x.fields[f]
            /\ \A f \in FieldNames(x.ty) \ FieldsOfType(x.ty, "NodeId") :
                   y.fields[f] = x.fields[f]
            /\ \A f \in registered : y.fields[f] = Unified(x.fields[f]) % U32Modulus

\* C5 witness: a method call whose ref_id is absent and whose decl_id is
\* present keeps both, and its scope was rewritten.
C5_Witness ==
    /\ out # None
    /\ fact[1].ty = "MethodCallData"
    /\ fact[1].fields["ref_id"] = None /\ out[1].fields["ref_id"] = None
    /\ fact[1].fields["decl_id"] # None
    /\ out[1].fields["decl_id"] = fact[1].fields["decl_id"]
    /\ out[1].fields["scope"] # fact[1].fields["scope"]

\* C10: the value normalize() stores in a registered field is the unified id
\* reduced modulo the width of the field; it is the unified id exactly when
\* the unified id fits the field; stored ids of distinct NodeIds that fit are
\* distinct, and a unified id that does not fit is stored as the stored id of
\* another NodeId of the unit.
C10_StoredWidth ==
    out # None =>
        LET x == fact[1]
            y == out[1]
            registered == Range(impl_normalize[x.ty])
        IN  /\ \A f \in registered :
                   /\ y.fields[f] = Unified(x.fields[f]) % U32Modulus
                   /\ y.fields[f] = Unified(x.fields[f]) <=> Unified(x.fields[f]) < U32Modulus
                   /\ Unified(x.fields[f]) >= U32Modulus =>
                          \E other \in NodeId :
                              /\ other # x.fields[f]
                              /\ Unified(other) % U32Modulus = y.fields[f]
            /\ \A f, g \in registered :
                   (/\ x.fields[f] # x.fields[g]
                    /\ Unified(x.fields[f]) < U32Modulus
                    /\ Unified(x.fields[g]) < U32Modulus)
                       => y.fields[f] # y.fields[g]

\* C10 witness: a fact whose id and scope are distinct NodeIds, the scope's
\* unified id does not fit the field, and both are stored as the same value.
C10_Witness ==
    /\ out # None
    /\ fact[1].ty = "EnumData"
    /\ fact[1].fields["id"] # fact[1].fields["scope"]
    /\ Unified(fact[1].fields["scope"]) >= U32Modulus
    /\ out[1].fields["id"] = out[1].fields["scope"]

(***************************************************************************)
(* Properties of SpanData::from_span, checked under SpecSpan.              *)
(***************************************************************************)
Resolvable(pos) == \E i \in 1 .. Len(cm) : cm[i].start_pos <= pos /\ pos <= cm[i].end_pos

FileOf(pos) == cm[CHOOSE i \in 1 .. Len(cm) : cm[i].start_pos <= pos /\ pos <= cm[i].end_pos]

\* The start of the line of its file that pos lies on.
LineStartOf(pos) ==
    LET f == FileOf(pos)
        starts == { f.lines[i] : i \in 1 .. Len(f.lines) }
    IN  CHOOSE l \in starts : l <= pos /\ \A m \in starts : m <= pos => m <= l

\* The number of characters between the start of its line and pos.
CharColumn(pos) ==
    Cardinality({ p \in CharBoundaries(FileOf(pos)) : LineStartOf(pos) <= p /\ p < pos })

\* C7: from_span sets column_start and column_end to one more than the number
\* of characters between the start of the line and span.lo, span.hi; both are
\* at least 1, and bytes [120, 135) of a line that starts at byte 100 give
\* the columns 21 and 36.
C7_OneBasedColumns ==
    sd.status = "returned" =>
        /\ sd.value.column_start = CharColumn(span[1].lo) + 1
        /\ sd.value.column_end = CharColumn(span[1].hi) + 1
        /\ sd.value.column_start >= 1
        /\ sd.value.column_end >= 1
        /\ (cm = ExampleCodeMap /\ span[1] = ExampleSpan) =>
               (sd.value.column_start = 21 /\ sd.value.column_end = 36)

\* A span that starts after a multi-byte character of its line, so that its
\* character column differs from its byte column, was converted.
C7_CharColumnReached ==
    /\ sd.status = "returned"
    /\ sd.value.column_start > 1
    /\ sd.value.column_start < span[1].lo - LineStartOf(span[1].lo) + 1

\* C7 witness: the span over bytes [120, 135) of the line that starts at byte
\* 100 was converted, to the columns 21 and 36.
C7_Witness ==
    /\ sd.status = "returned"
    /\ cm = ExampleCodeMap
    /\ span[1] = ExampleSpan
    /\ sd.value.column_start = 21
    /\ sd.value.column_end = 36

C9_UnresolvableIsFatal ==
    /\ (sd.status # "not called" /\ (~Resolvable(span[1].lo) \/ ~Resolvable(span[1].hi)))
           => sd.status = "panicked"
    /\ sd.status = "returned" =>
           /\ sd.value.file_name = FileOf(span[1].lo).name
           /\ sd.value.line_start >= 1 /\ sd.value.line_end >= 1
           /\ sd.value.column_start >= 1 /\ sd.value.column_end >= 1

\* C9 witness: span.lo lies in a file, span.hi in none, and from_span failed.
C9_Witness ==
    /\ sd.status = "panicked"
    /\ Resolvable(span[1].lo)
    /\ ~Resolvable(span[1].hi)

====
